---- MODULE Spec2Model ----
(***************************************************************************)
(* A model of the essensio single-node ledger: the transaction / UTXO      *)
(* model (core transactions), block assembly (core block), the chain       *)
(* manager (core chain) and the JSON-RPC handlers that drive it.           *)
(*                                                                         *)
(* Byte strings are sequences of integers.                                 *)
(***************************************************************************)
EXTENDS Integers, Sequences, FiniteSets, TLC

(***************************************************************************)
(* Bounds of the model.                                                    *)
(***************************************************************************)
\* the chain is not grown past this many blocks (genesis included)
MaxHeight == 3
\* injected faults: process crashes and failing store writes / encodes
MaxFaults == 1
\* two requests at a time are taken up while the chain has fewer blocks
MaxRaceHeight == 2

(***************************************************************************)
(* Primitive types: common.Hash, common.Address                            *)
(***************************************************************************)
\* common.Hash is an array type [32]byte: len() of a Hash is 32 whatever it holds
HashSize == 32

\* common.NullHash(): the zero value of Hash
NullHash == <<0>>

\* common.Hash256 / sha256.Sum256: a digest of a byte string, here a
\* polynomial hash of one "byte"; it is never the null hash
HashModulus == 33554393
HashMultiplier == 31

RECURSIVE HashFold(_, _, _)
HashFold(data, i, acc) ==
    IF i > Len(data) THEN acc
    ELSE HashFold(data, i + 1, (acc * HashMultiplier + data[i] + Len(data)) % HashModulus)

Hash256(data) == <<1 + HashFold(data, 1, 7)>>

\* the built-in len() applied to a value of type common.Hash
LenOfHash(h) == HashSize

\* Addresses are strings in the program; here small integers.
MinerAddress == 1
Alice == 2
\* the memo "Genesis Block Coinbase Transaction", which CoinbaseTxn turns into an Address
GenesisMemo == 3
\* fmt.Sprintf("Coins to %s", to)
CoinsTo(to) == 10 + to

Addresses == {MinerAddress, Alice, GenesisMemo}

\* the block reward of a coinbase transaction
Reward == 100

(***************************************************************************)
(* Structured encoding (common.GobEncode / common.GobDecode)               *)
(***************************************************************************)
\* a variable-length byte string, length first
EncBytes(b) == <<Len(b)>> \o b

RECURSIVE Concat(_)
Concat(ss) == IF ss = <<>> THEN <<>> ELSE Head(ss) \o Concat(Tail(ss))

EncInput(in) == EncBytes(in.ID) \o <<in.Out, in.Sig>>
EncOutput(out) == <<out.Value, out.PubKey>>

\* Transaction.Serialize
TxnSerialize(txn) ==
    EncBytes(txn.ID)
      \o <<Len(txn.Inputs)>> \o Concat([i \in 1..Len(txn.Inputs) |-> EncInput(txn.Inputs[i])])
      \o <<Len(txn.Outputs)>> \o Concat([i \in 1..Len(txn.Outputs) |-> EncOutput(txn.Outputs[i])])

\* gob's encoding of a signed integer: zig-zag, then one byte below 128 and
\* otherwise the negated byte count followed by the big-endian bytes
RECURSIVE BigEndian(_)
BigEndian(u) == IF u = 0 THEN <<>> ELSE BigEndian(u \div 256) \o <<u % 256>>

GobEncodeInt(i) ==
    LET u == IF i < 0 THEN 2 * (-i) - 1 ELSE 2 * i
    IN  IF u < 128 THEN <<u>> ELSE <<256 - Len(BigEndian(u))>> \o BigEndian(u)

RECURSIVE FromBigEndian(_)
FromBigEndian(b) ==
    IF b = <<>> THEN 0 ELSE 256 * FromBigEndian(SubSeq(b, 1, Len(b) - 1)) + b[Len(b)]

GobDecodeInt(b) ==
    LET u == IF Len(b) = 1 THEN b[1] ELSE FromBigEndian(Tail(b))
    IN  IF u % 2 = 1 THEN -((u + 1) \div 2) ELSE u \div 2

(***************************************************************************)
(* Transactions                                                            *)
(***************************************************************************)
\* Transaction.SetID: the digest of the transaction serialized with the ID it has
SetID(txn) == [txn EXCEPT !.ID = Hash256(TxnSerialize(txn))]

\* CoinbaseTxn(to, data); data = 0 stands for the empty string
CoinbaseTxn(to, data) ==
    LET memo == IF data = 0 THEN CoinsTo(to) ELSE data
        txnIn == [ID |-> NullHash, Out |-> -1, Sig |-> memo]
        txnOut == [Value |-> Reward, PubKey |-> to]
    IN  SetID([ID |-> NullHash, Inputs |-> <<txnIn>>, Outputs |-> <<txnOut>>])

\* Transaction.IsCoinbase
IsCoinbase(tx) ==
    /\ Len(tx.Inputs) = 1
    /\ LenOfHash(tx.Inputs[1].ID) = 0
    /\ tx.Inputs[1].Out = -1

\* TxInput.CanUnlock
CanUnlock(in, address) == in.Sig = address

\* TxOutput.CanBeUnlocked
CanBeUnlocked(out, address) == out.PubKey = address

\* a nil *Transaction: Transactions is a slice of pointers and may hold one
NilTxn == [ID |-> <<>>, Inputs |-> <<>>, Outputs |-> <<>>]

\* common.GobEncode fails on a nil pointer
TxnSerializeFails(txn) == txn = NilTxn

\* Transaction.Hash: the null hash when the transaction does not serialize
TxnHash(txn) == IF TxnSerializeFails(txn) THEN NullHash ELSE Hash256(TxnSerialize(txn))

\* GenerateSummary: the digest of the concatenated transaction hashes; the
\* null hash as soon as one transaction hashes to the null hash
GenerateSummary(txns) ==
    IF \E i \in 1..Len(txns) : TxnHash(txns[i]) = NullHash
    THEN NullHash
    ELSE Hash256(Concat([i \in 1..Len(txns) |-> EncBytes(TxnHash(txns[i]))]))

(***************************************************************************)
(* Blocks (core block, block header and its proof of work)                 *)
(***************************************************************************)
\* the header bytes that are hashed for a given nonce
HeaderBytes(priori, summary, timestamp, nonce) ==
    EncBytes(priori) \o EncBytes(summary) \o <<timestamp, nonce>>

\* the difficulty predicate on a candidate digest (its last byte is the
\* nonce's, so some nonce below Difficulty meets it)
Difficulty == 3
MeetsTarget(candidate) == (Len(candidate) + candidate[Len(candidate)]) % Difficulty = 0

\* BlockHeader.Mint: the first nonce, from 0, whose digest meets the target
RECURSIVE MintFrom(_, _, _, _)
MintFrom(priori, summary, timestamp, nonce) ==
    LET candidate == Hash256(HeaderBytes(priori, summary, timestamp, nonce))
    IN  IF MeetsTarget(candidate) THEN [nonce |-> nonce, hash |-> candidate]
        ELSE MintFrom(priori, summary, timestamp, nonce + 1)

Mint(priori, summary, timestamp) == MintFrom(priori, summary, timestamp, 0)

\* NewBlock(txns, priori, height) at wall-clock time timestamp
NewBlock(txns, priori, height, timestamp) ==
    LET summary == GenerateSummary(txns)
        minted == Mint(priori, summary, timestamp)
    IN  [Priori |-> priori, Summary |-> summary, Timestamp |-> timestamp,
         Nonce |-> minted.nonce, BlockHeight |-> height, BlockTxns |-> txns,
         BlockHash |-> minted.hash]

\* Block.TxnCount
TxnCount(block) == Len(block.BlockTxns)

\* Block.Serialize fails when a transaction of the block is a nil pointer
BlockSerializeFails(block) ==
    \E i \in 1..Len(block.BlockTxns) : TxnSerializeFails(block.BlockTxns[i])

\* common.GobEncode of a Block: gob frames every field, so the encoding is
\* the sequence of the encoded fields (the height in gob's integer form)
EncodeTxn(txn) ==
    << txn.ID,
       [i \in 1..Len(txn.Inputs) |->
           <<txn.Inputs[i].ID, <<txn.Inputs[i].Out>>, <<txn.Inputs[i].Sig>>>>],
       [i \in 1..Len(txn.Outputs) |->
           <<txn.Outputs[i].Value, txn.Outputs[i].PubKey>>] >>

DecodeTxn(e) ==
    [ID |-> e[1],
     Inputs |-> [i \in 1..Len(e[2]) |->
                    [ID |-> e[2][i][1], Out |-> e[2][i][2][1], Sig |-> e[2][i][3][1]]],
     Outputs |-> [i \in 1..Len(e[3]) |->
                    [Value |-> e[3][i][1], PubKey |-> e[3][i][2]]]]

\* Block.Serialize
BlockSerialize(block) ==
    << block.Priori, block.Summary, <<block.Timestamp>>, <<block.Nonce>>,
       GobEncodeInt(block.BlockHeight),
       [i \in 1..Len(block.BlockTxns) |-> EncodeTxn(block.BlockTxns[i])],
       block.BlockHash >>

\* Block.Deserialize
BlockDeserialize(data) ==
    [Priori |-> data[1], Summary |-> data[2], Timestamp |-> data[3][1],
     Nonce |-> data[4][1], BlockHeight |-> GobDecodeInt(data[5]),
     BlockTxns |-> [i \in 1..Len(data[6]) |-> DecodeTxn(data[6][i])],
     BlockHash |-> data[7]]

(***************************************************************************)
(* Chain iterator (core iterator).  blocks is the block part of the        *)
(* database: block hash -> encoded block.                                  *)
(***************************************************************************)
\* ChainManager.NewIterator: the cursor starts at the chain head
NewIterator(head) == head

\* ChainIterator.Done
IterDone(cursor) == cursor = NullHash

\* ChainIterator.Next: fails when the cursor is not a key of the database;
\* otherwise yields the decoded block and moves the cursor to its priori
IterNext(blocks, cursor) ==
    IF cursor \notin DOMAIN blocks
    THEN [err |-> TRUE, block |-> <<>>, cursor |-> cursor]
    ELSE LET block == BlockDeserialize(blocks[cursor])
         IN  [err |-> FALSE, block |-> block, cursor |-> block.Priori]

(***************************************************************************)
(* Unspent-output resolution (ChainManager.Find...)                        *)
(***************************************************************************)
\* spentTXOs[id] = append(spentTXOs[id], out) on a map, here a function
\* whose domain is the set of keys present
MapAppend(m, id, out) ==
    [k \in DOMAIN m \cup {id} |->
        IF k = id
        THEN (IF id \in DOMAIN m THEN Append(m[id], out) ELSE <<out>>)
        ELSE m[k]]

EmptyMap == [k \in {} |-> <<>>]

SeqContains(s, x) == \E i \in 1..Len(s) : s[i] = x

\* the Outputs loop of FindUnspentTransactions for one transaction, from
\* output index outIdx (0-based) on: tx is appended once per output that is
\* not marked spent and that address can unlock
RECURSIVE ScanOutputs(_, _, _, _, _)
ScanOutputs(tx, outIdx, address, unspentTxs, spentTXOs) ==
    IF outIdx >= Len(tx.Outputs) THEN unspentTxs
    ELSE LET out == tx.Outputs[outIdx + 1]
             spent == /\ tx.ID \in DOMAIN spentTXOs
                      /\ SeqContains(spentTXOs[tx.ID], outIdx)
             more == IF ~spent /\ CanBeUnlocked(out, address)
                     THEN Append(unspentTxs, tx) ELSE unspentTxs
         IN  ScanOutputs(tx, outIdx + 1, address, more, spentTXOs)

\* the Inputs loop: every input address can unlock marks its output spent
RECURSIVE ScanInputs(_, _, _)
ScanInputs(inputs, address, spentTXOs) ==
    IF inputs = <<>> THEN spentTXOs
    ELSE LET in == Head(inputs)
             more == IF CanUnlock(in, address)
                     THEN MapAppend(spentTXOs, in.ID, in.Out) ELSE spentTXOs
         IN  ScanInputs(Tail(inputs), address, more)

\* the loop over the transactions of one block
RECURSIVE ScanTxns(_, _, _, _)
ScanTxns(txns, address, unspentTxs, spentTXOs) ==
    IF txns = <<>> THEN [unspentTxs |-> unspentTxs, spentTXOs |-> spentTXOs]
    ELSE LET tx == Head(txns)
             unspent == ScanOutputs(tx, 0, address, unspentTxs, spentTXOs)
             spent == IF IsCoinbase(tx) = FALSE
                      THEN ScanInputs(tx.Inputs, address, spentTXOs) ELSE spentTXOs
         IN  ScanTxns(Tail(txns), address, unspent, spent)

\* the condition on which FindUnspentTransactions leaves its loop
AtGenesis(block) == LenOfHash(block.Priori) = 0

\* the for loop of FindUnspentTransactions; nexts lists the cursors on which
\* Next was called
RECURSIVE FindUnspentLoop(_, _, _, _, _, _)
FindUnspentLoop(blocks, cursor, address, unspentTxs, spentTXOs, nexts) ==
    LET n == IterNext(blocks, cursor)
        called == Append(nexts, cursor)
    IN  IF n.err THEN [err |-> TRUE, txs |-> <<>>, nexts |-> called]
        ELSE LET r == ScanTxns(n.block.BlockTxns, address, unspentTxs, spentTXOs)
             IN  IF AtGenesis(n.block)
                 THEN [err |-> FALSE, txs |-> r.unspentTxs, nexts |-> called]
                 ELSE FindUnspentLoop(blocks, n.cursor, address,
                                      r.unspentTxs, r.spentTXOs, called)

\* ChainManager.FindUnspentTransactions
FindUnspentTransactions(blocks, head, address) ==
    FindUnspentLoop(blocks, NewIterator(head), address, <<>>, EmptyMap, <<>>)

\* the outputs of tx that address can unlock
OwnedOutputs(tx, address) ==
    LET idx == {i \in 1..Len(tx.Outputs) : CanBeUnlocked(tx.Outputs[i], address)}
        F[i \in 0..Len(tx.Outputs)] ==
            IF i = 0 THEN <<>>
            ELSE IF i \in idx THEN Append(F[i - 1], tx.Outputs[i]) ELSE F[i - 1]
    IN  F[Len(tx.Outputs)]

\* ChainManager.FindUTXO
FindUTXO(blocks, head, address) ==
    LET unspent == FindUnspentTransactions(blocks, head, address)
    IN  IF unspent.err THEN [err |-> TRUE, UTXOs |-> <<>>]
        ELSE [err |-> FALSE,
              UTXOs |-> Concat([i \in 1..Len(unspent.txs) |->
                                   OwnedOutputs(unspent.txs[i], address)])]

\* the Work loop of FindSpendableOutputs, at transaction txIdx (1-based) and
\* output outIdx (0-based)
RECURSIVE SpendableLoop(_, _, _, _, _, _, _)
SpendableLoop(txs, txIdx, outIdx, address, amount, accumulated, unspentOuts) ==
    IF txIdx > Len(txs) THEN [accumulated |-> accumulated, unspentOuts |-> unspentOuts]
    ELSE IF outIdx >= Len(txs[txIdx].Outputs)
    THEN SpendableLoop(txs, txIdx + 1, 0, address, amount, accumulated, unspentOuts)
    ELSE LET tx == txs[txIdx]
             out == tx.Outputs[outIdx + 1]
         IN  IF CanBeUnlocked(out, address) /\ accumulated < amount
             THEN LET acc == accumulated + out.Value
                      outs == MapAppend(unspentOuts, tx.ID, outIdx)
                  IN  IF acc >= amount
                      THEN [accumulated |-> acc, unspentOuts |-> outs]
                      ELSE SpendableLoop(txs, txIdx, outIdx + 1, address, amount, acc, outs)
             ELSE SpendableLoop(txs, txIdx, outIdx + 1, address, amount,
                                accumulated, unspentOuts)

\* ChainManager.FindSpendableOutputs
FindSpendableOutputs(blocks, head, address, amount) ==
    LET unspent == FindUnspentTransactions(blocks, head, address)
    IN  IF unspent.err
        THEN [err |-> TRUE, accumulated |-> -1, unspentOuts |-> EmptyMap]
        ELSE LET r == SpendableLoop(unspent.txs, 1, 0, address, amount, 0, EmptyMap)
             IN  [err |-> FALSE, accumulated |-> r.accumulated,
                  unspentOuts |-> r.unspentOuts]

(***************************************************************************)
(* Transfers (NewTransaction) and the requests of the JSON-RPC API         *)
(***************************************************************************)
RECURSIVE Perms(_)
Perms(S) ==
    IF S = {} THEN {<<>>}
    ELSE UNION {{<<x>> \o q : q \in Perms(S \ {x})} : x \in S}

\* the inputs NewTransaction builds by ranging over the map validOutputs,
\* visiting its keys in the given order
InputsFor(validOutputs, order, from) ==
    Concat([k \in 1..Len(order) |->
              [j \in 1..Len(validOutputs[order[k]]) |->
                  [ID |-> order[k], Out |-> validOutputs[order[k]][j], Sig |-> from]]])

\* the panic message of log.Panic(err) for an iterator error, and of the
\* funds check
PanicNotFound == "block not found"
PanicFunds == "Error: not enough funds"

\* NewTransaction(from, to, amount, chain): the outcomes it can have; Go
\* ranges over a map in an unspecified order, one outcome per order
NewTransaction(blocks, head, from, to, amount) ==
    LET r == FindSpendableOutputs(blocks, head, from, amount)
    IN  IF r.err THEN {[panic |-> PanicNotFound, tx |-> NilTxn]}
        ELSE IF r.accumulated < amount THEN {[panic |-> PanicFunds, tx |-> NilTxn]}
        ELSE {[panic |-> "",
               tx |-> SetID([ID |-> NullHash,
                             Inputs |-> InputsFor(r.unspentOuts, order, from),
                             Outputs |-> <<[Value |-> amount, PubKey |-> to]>>
                                \o (IF r.accumulated > amount
                                    THEN <<[Value |-> r.accumulated - amount,
                                            PubKey |-> from]>>
                                    ELSE <<>>)])]
              : order \in Perms(DOMAIN r.unspentOuts)}

\* the loop of API.AddBlock over the transfers of the request: one
\* NewTransaction per transfer, each against the chain as it stands
RECURSIVE BuildTransactions(_, _, _)
BuildTransactions(blocks, head, args) ==
    IF args = <<>> THEN {[panic |-> "", txns |-> <<>>]}
    ELSE UNION {
           IF o.panic # "" THEN {[panic |-> o.panic, txns |-> <<>>]}
           ELSE {[panic |-> r.panic,
                  txns |-> IF r.panic # "" THEN <<>> ELSE <<o.tx>> \o r.txns]
                 : r \in BuildTransactions(blocks, head, Tail(args))}
           : o \in NewTransaction(blocks, head, Head(args).From, Head(args).To,
                                  Head(args).Value)}

(***************************************************************************)
(* Inputs                                                                  *)
(***************************************************************************)
\* the values time.Now().Unix() takes when NewBlockHeader reads the clock
Timestamps == {0, 1}

\* the coinbase transaction of the genesis block
GenesisTxn == CoinbaseTxn(MinerAddress, GenesisMemo)

\* a transfer as NewTransaction shapes it: 30 of the genesis reward to Alice,
\* the change back to the miner
SampleTransfer ==
    SetID([ID |-> NullHash,
           Inputs |-> <<[ID |-> GenesisTxn.ID, Out |-> 0, Sig |-> MinerAddress]>>,
           Outputs |-> <<[Value |-> 30, PubKey |-> Alice],
                         [Value |-> 70, PubKey |-> MinerAddress]>>])

\* the transaction sequences handed to ChainManager.AddBlock directly
TxnChoices ==
    { <<>>,
      <<CoinbaseTxn(Alice, 0), SampleTransfer>>,
      <<CoinbaseTxn(Alice, 0), NilTxn>> }

\* the requests (AddBlockArgs.Transactions) sent to API.AddBlock
ArgChoices ==
    { <<>>,
      <<[From |-> MinerAddress, To |-> Alice, Value |-> 30]>>,
      <<[From |-> MinerAddress, To |-> Alice, Value |-> 30],
        [From |-> MinerAddress, To |-> Alice, Value |-> 80]>>,
      <<[From |-> Alice, To |-> MinerAddress, Value |-> 500]>> }

(***************************************************************************)
(* State                                                                   *)
(***************************************************************************)
\* the request handlers (net/http serves each request on its own goroutine)
Procs == {1, 2}

VARIABLES
    now,          \* the wall clock (seconds) as NewBlock last read it
    faults,       \* the faults injected so far
    db,           \* the database: exists, blocks (hash -> bytes), and the values
                  \* under ChainHeadKey and ChainHeightKey (<<>> when absent)
    mgr,          \* where the process is: down, inside init, ready, stopped
    boot,         \* how the process last started or ended: none, init, load,
                  \* failed (NewChainManager), fatal (a failing iterator)
    chainHead,    \* ChainManager.Head
    chainHeight,  \* ChainManager.Height
    pc,           \* per handler: its position
    via,          \* per handler: the request it serves, "api" (API.AddBlock),
                  \* "core" (ChainManager.AddBlock called directly) or "show"
    req,          \* per handler: the transfers of the API.AddBlock request
    txns,         \* per handler: the transactions of the AddBlock call
    blk,          \* per handler: the block the AddBlock call built
    loc,          \* per handler: the Head and the Height it has read from the
                  \* ChainManager and works on
    iter,         \* per handler: ShowChain's iterator cursor and ShowChainResult
    res           \* per handler: the outcome of its last request

vars == <<now, faults, db, mgr, boot, chainHead, chainHeight, pc, via, req, txns, blk, loc, iter,
          res>>

NoBlock == NewBlock(<<>>, NullHash, 0, 0)
NoResult == [kind |-> "none", msg |-> "", BlockHeight |-> 0, BlockHash |-> NullHash]
Failure(kind, msg) == [kind |-> kind, msg |-> msg, BlockHeight |-> 0, BlockHash |-> NullHash]
NoLoc == [head |-> NullHash, height |-> 0]
NoIter == [cursor |-> NullHash, ChainHead |-> NullHash, ChainHeight |-> 0, Blocks |-> <<>>]

\* Database.SetEntry on a block key, on ChainHeadKey and on ChainHeightKey
PutBlock(d, hash, data) ==
    [d EXCEPT !.blocks = [k \in DOMAIN d.blocks \cup {hash} |->
                             IF k = hash THEN data ELSE d.blocks[k]]]
PutHead(d, head) == [d EXCEPT !.head = <<head>>]
PutHeight(d, height) == [d EXCEPT !.height = <<GobEncodeInt(height)>>]

Init ==
    /\ now = 0
    /\ faults = 0
    /\ db = [exists |-> FALSE, blocks |-> EmptyMap, head |-> <<>>, height |-> <<>>]
    /\ mgr = "down"
    /\ boot = "none"
    /\ chainHead = NullHash
    /\ chainHeight = 0
    /\ pc = [p \in Procs |-> "idle"]
    /\ via = [p \in Procs |-> "core"]
    /\ req = [p \in Procs |-> <<>>]
    /\ txns = [p \in Procs |-> <<>>]
    /\ blk = [p \in Procs |-> NoBlock]
    /\ loc = [p \in Procs |-> NoLoc]
    /\ iter = [p \in Procs |-> NoIter]
    /\ res = [p \in Procs |-> NoResult]

handlerVars == <<pc, via, req, txns, blk, loc, iter, res>>

\* the handlers' state of a process that is not serving
ResetHandlers ==
    /\ pc' = [p \in Procs |-> "idle"]
    /\ via' = [p \in Procs |-> "core"]
    /\ req' = [p \in Procs |-> <<>>]
    /\ txns' = [p \in Procs |-> <<>>]
    /\ blk' = [p \in Procs |-> NoBlock]
    /\ loc' = [p \in Procs |-> NoLoc]
    /\ iter' = [p \in Procs |-> NoIter]
    /\ res' = [p \in Procs |-> NoResult]

\* the process exits (log.Fatalln, or a crash): its memory is gone
Exit(how) ==
    /\ mgr' = "down"
    /\ boot' = how
    /\ chainHead' = NullHash
    /\ chainHeight' = 0
    /\ ResetHandlers

\* one more fault: the process is killed, or a store write fails
Fault ==
    /\ faults < MaxFaults
    /\ faults' = faults + 1

(***************************************************************************)
(* The environment                                                         *)
(***************************************************************************)
\* The process ends between two steps of init or of AddBlock: it is killed,
\* or init's store write failed and log.Fatalln ended it.  Its memory is
\* gone, the database stays.  (Before the first write of a request, being
\* killed leaves what Stop leaves.)
Crash ==
    /\ \/ mgr \in {"init", "init_synchead", "init_syncheight"}
       \/ mgr = "ready" /\ \E p \in Procs : pc[p] \in {"update", "synchead", "syncheight"}
    /\ Fault
    /\ Exit("none")
    /\ UNCHANGED <<now, db>>

(***************************************************************************)
(* NewChainManager: load or init                                           *)
(***************************************************************************)
\* a variant of Load that reads the head and leaves the height at its zero
\* value
Load_NoHeight ==
    /\ mgr \in {"down", "stopped"}
    /\ db.exists
    /\ IF db.head = <<>> \/ db.height = <<>>
       THEN Exit("failed")
       ELSE /\ chainHeight' = 0
            /\ chainHead' = db.head[1]
            /\ mgr' = "ready"
            /\ boot' = "load"
            /\ ResetHandlers
    /\ UNCHANGED <<now, faults, db>>

\* ChainManager.load, on a database that exists
Load ==
    /\ mgr \in {"down", "stopped"}
    /\ db.exists
    /\ IF db.head = <<>> \/ db.height = <<>>
       THEN Exit("failed")
       ELSE /\ chainHeight' = GobDecodeInt(db.height[1])
            /\ chainHead' = db.head[1]
            /\ mgr' = "ready"
            /\ boot' = "load"
            /\ ResetHandlers
    /\ UNCHANGED <<now, faults, db>>

\* ChainManager.init, first step: db.Open creates the database
InitOpen ==
    /\ mgr \in {"down", "stopped"}
    /\ ~db.exists
    /\ db' = [db EXCEPT !.exists = TRUE]
    /\ mgr' = "init"
    /\ boot' = "none"
    /\ UNCHANGED <<now, faults, chainHead, chainHeight, handlerVars>>

\* a variant of InitGenesis that leaves the height at its zero value
InitGenesis_HeightZero ==
    /\ mgr = "init"
    /\ \E t \in {u \in Timestamps : u >= now} :
          LET genesisBlock == NewBlock(<<GenesisTxn>>, NullHash, 0, t)
          IN  /\ now' = t
              /\ db' = PutBlock(db, genesisBlock.BlockHash, BlockSerialize(genesisBlock))
              /\ chainHead' = genesisBlock.BlockHash
              /\ chainHeight' = 0
              /\ mgr' = "init_synchead"
              /\ UNCHANGED <<faults, boot, handlerVars>>

\* ChainManager.init: the genesis block is built, stored, and made the head
InitGenesis ==
    /\ mgr = "init"
    /\ \E t \in {u \in Timestamps : u >= now} :
          LET genesisBlock == NewBlock(<<GenesisTxn>>, NullHash, 0, t)
          IN  /\ now' = t
              /\ db' = PutBlock(db, genesisBlock.BlockHash, BlockSerialize(genesisBlock))
              /\ chainHead' = genesisBlock.BlockHash
              /\ chainHeight' = 1
              /\ mgr' = "init_synchead"
              /\ UNCHANGED <<faults, boot, handlerVars>>

\* ChainManager.syncState, first write: the head
SyncHead(d, head) == PutHead(d, head)

\* ChainManager.syncState, second write: the encoded height
SyncHeight(d, height) == PutHeight(d, height)

InitSyncHead ==
    /\ mgr = "init_synchead"
    /\ db' = SyncHead(db, chainHead)
    /\ mgr' = "init_syncheight"
    /\ UNCHANGED <<now, faults, boot, chainHead, chainHeight, handlerVars>>

InitSyncHeight ==
    /\ mgr = "init_syncheight"
    /\ db' = SyncHeight(db, chainHeight)
    /\ mgr' = "ready"
    /\ boot' = "init"
    /\ UNCHANGED <<now, faults, chainHead, chainHeight, handlerVars>>

\* API.Stop / ChainManager.Stop: the database is closed; the manager is not
\* used afterwards
Stop ==
    /\ mgr = "ready"
    /\ \A p \in Procs : pc[p] = "idle"
    /\ mgr' = "stopped"
    /\ ResetHandlers
    /\ UNCHANGED <<now, faults, db, boot, chainHead, chainHeight>>

(***************************************************************************)
(* ChainManager.AddBlock, step by step                                     *)
(***************************************************************************)
\* handler p takes up a request: the locals of its last one are gone
Enter(p, kind, args, t) ==
    /\ mgr = "ready"
    /\ pc[p] = "idle"
    /\ via' = [via EXCEPT ![p] = kind]
    /\ req' = [req EXCEPT ![p] = args]
    /\ txns' = [txns EXCEPT ![p] = t]
    /\ blk' = [blk EXCEPT ![p] = NoBlock]
    /\ loc' = [loc EXCEPT ![p] = NoLoc]
    /\ iter' = [iter EXCEPT ![p] = NoIter]

\* handler p is done, with an outcome
Return(p, outcome) ==
    /\ pc' = [pc EXCEPT ![p] = "idle"]
    /\ res' = [res EXCEPT ![p] = outcome]

\* ChainManager.AddBlock is called directly with a transaction sequence
CallAddBlock(p) ==
    /\ chainHeight < MaxHeight
    /\ \E t \in TxnChoices : Enter(p, "core", <<>>, t)
    /\ pc' = [pc EXCEPT ![p] = "build"]
    /\ res' = [res EXCEPT ![p] = NoResult]
    /\ UNCHANGED <<now, faults, db, mgr, boot, chainHead, chainHeight>>

\* a variant of APIAddBlock without the check for an empty request
APIAddBlock_NoEmptyCheck(p) ==
    /\ chainHeight < MaxHeight
    /\ \E args \in ArgChoices :
          \E o \in BuildTransactions(db.blocks, chainHead, args) :
              IF o.panic # ""
              THEN /\ Enter(p, "api", args, <<>>)
                   /\ Return(p, Failure("panic", o.panic))
              ELSE /\ Enter(p, "api", args, o.txns)
                   /\ pc' = [pc EXCEPT ![p] = "build"]
                   /\ res' = [res EXCEPT ![p] = NoResult]
    /\ UNCHANGED <<now, faults, db, mgr, boot, chainHead, chainHeight>>

\* API.AddBlock receives a request: it is refused when empty; otherwise one
\* transaction is built per transfer (a panic of NewTransaction ends the
\* request) and ChainManager.AddBlock is called with them
APIAddBlock(p) ==
    /\ chainHeight < MaxHeight
    /\ \E args \in ArgChoices :
          IF Len(args) = 0
          THEN /\ Enter(p, "api", args, <<>>)
               /\ Return(p, Failure("error", "no transactions for block"))
          ELSE \E o \in BuildTransactions(db.blocks, chainHead, args) :
                  IF o.panic # ""
                  THEN /\ Enter(p, "api", args, <<>>)
                       /\ Return(p, Failure("panic", o.panic))
                  ELSE /\ Enter(p, "api", args, o.txns)
                       /\ pc' = [pc EXCEPT ![p] = "build"]
                       /\ res' = [res EXCEPT ![p] = NoResult]
    /\ UNCHANGED <<now, faults, db, mgr, boot, chainHead, chainHeight>>

\* AddBlock: NewBlock on the current head and height at the current time,
\* then Serialize
AddBlockBuild(p) ==
    /\ pc[p] = "build"
    /\ \E t \in {u \in Timestamps : u >= now} :
          LET block == NewBlock(txns[p], chainHead, chainHeight, t)
          IN  /\ now' = t
              /\ blk' = [blk EXCEPT ![p] = block]
              /\ IF BlockSerializeFails(block)
                 THEN Return(p, Failure("error", "block serialize failed"))
                 ELSE /\ pc' = [pc EXCEPT ![p] = "store"]
                      /\ UNCHANGED res
    /\ UNCHANGED <<faults, db, mgr, boot, chainHead, chainHeight, via, req, txns, loc, iter>>

\* a variant of AddBlockStore that writes the block under the key of its
\* prior block
AddBlockStore_OverPrior(p) ==
    /\ pc[p] = "store"
    /\ \/ /\ db' = PutBlock(db, blk[p].Priori, BlockSerialize(blk[p]))
          /\ pc' = [pc EXCEPT ![p] = "update"]
          /\ UNCHANGED <<faults, res>>
       \/ /\ Fault
          /\ Return(p, Failure("error", "block store to db failed"))
          /\ UNCHANGED db
    /\ UNCHANGED <<now, mgr, boot, chainHead, chainHeight, via, req, txns, blk, loc, iter>>

\* a variant of AddBlockStore in which Head and Height were moved before the
\* write, so that a failed write leaves them advanced
AddBlockStore_UpdateFirst(p) ==
    /\ pc[p] = "store"
    /\ \/ /\ db' = PutBlock(db, blk[p].BlockHash, BlockSerialize(blk[p]))
          /\ pc' = [pc EXCEPT ![p] = "update"]
          /\ UNCHANGED <<faults, res, chainHead, chainHeight>>
       \/ /\ Fault
          /\ chainHead' = blk[p].BlockHash
          /\ chainHeight' = chainHeight + 1
          /\ Return(p, Failure("error", "block store to db failed"))
          /\ UNCHANGED db
    /\ UNCHANGED <<now, mgr, boot, via, req, txns, blk, loc, iter>>

\* a variant of AddBlockStore with the inverse order: the head key is
\* written where the block should be
AddBlockStore_HeadFirst(p) ==
    /\ pc[p] = "store"
    /\ db' = PutHead(db, blk[p].BlockHash)
    /\ pc' = [pc EXCEPT ![p] = "update"]
    /\ UNCHANGED <<now, faults, mgr, boot, chainHead, chainHeight, via, req, txns, blk, loc, iter,
                   res>>

\* AddBlock: the block is written under its hash
AddBlockStore(p) ==
    /\ pc[p] = "store"
    /\ \/ /\ db' = PutBlock(db, blk[p].BlockHash, BlockSerialize(blk[p]))
          /\ pc' = [pc EXCEPT ![p] = "update"]
          /\ UNCHANGED <<faults, res>>
       \/ /\ Fault
          /\ Return(p, Failure("error", "block store to db failed"))
          /\ UNCHANGED db
    /\ UNCHANGED <<now, mgr, boot, chainHead, chainHeight, via, req, txns, blk, loc, iter>>

\* a variant of AddBlockUpdate that moves the head and forgets the increment
AddBlockUpdate_NoIncrement(p) ==
    /\ pc[p] = "update"
    /\ chainHead' = blk[p].BlockHash
    /\ pc' = [pc EXCEPT ![p] = "synchead"]
    /\ UNCHANGED <<now, faults, db, mgr, boot, chainHeight, via, req, txns, blk, loc, iter, res>>

\* AddBlock: chain.Head = block.BlockHash; chain.Height++
AddBlockUpdate(p) ==
    /\ pc[p] = "update"
    /\ chainHead' = blk[p].BlockHash
    /\ chainHeight' = chainHeight + 1
    /\ pc' = [pc EXCEPT ![p] = "synchead"]
    /\ UNCHANGED <<now, faults, db, mgr, boot, via, req, txns, blk, loc, iter,
                   res>>

\* AddBlock: syncState writes the head
AddBlockSyncHead(p) ==
    /\ pc[p] = "synchead"
    /\ \/ /\ db' = SyncHead(db, chainHead)
          /\ pc' = [pc EXCEPT ![p] = "syncheight"]
          /\ UNCHANGED <<faults, res>>
       \/ /\ Fault
          /\ Return(p, Failure("error", "chain state sync failed"))
          /\ UNCHANGED db
    /\ UNCHANGED <<now, mgr, boot, chainHead, chainHeight, via, req, txns, blk, loc, iter>>

\* what the caller gets when ChainManager.AddBlock returned nil: API.AddBlock
\* fills AddBlockResult from the chain
Success(p) ==
    IF via[p] = "api"
    THEN [kind |-> "ok", msg |-> "", BlockHeight |-> chainHeight - 1,
          BlockHash |-> chainHead]
    ELSE [kind |-> "ok", msg |-> "", BlockHeight |-> 0, BlockHash |-> NullHash]

\* AddBlock: syncState writes the height; AddBlock returns
AddBlockSyncHeight(p) ==
    /\ pc[p] = "syncheight"
    /\ \/ /\ db' = SyncHeight(db, chainHeight)
          /\ Return(p, Success(p))
          /\ UNCHANGED faults
       \/ /\ Fault
          /\ Return(p, Failure("error", "chain state sync failed"))
          /\ UNCHANGED db
    /\ UNCHANGED <<now, mgr, boot, chainHead, chainHeight, via, req, txns, blk, loc, iter>>

(***************************************************************************)
(* API.ShowChain                                                           *)
(***************************************************************************)
\* the ChainBlock appended for a block the iterator yields
ChainBlock(block) ==
    [Height |-> block.BlockHeight, BlockHash |-> block.BlockHash,
     PrevBlockHash |-> block.Priori, Nonce |-> block.Nonce,
     TxnCount |-> TxnCount(block)]

\* a variant of ShowChainContinues for a loop that calls Next without
\* asking Done first
ShowChainContinues_NoDoneCheck(cursor) == cursor = cursor

\* "for !iterator.Done()": whether the loop is entered once more
ShowChainContinues(cursor) == ~IterDone(cursor)

\* the loop of ShowChain from a cursor: the ChainBlocks appended, and whether
\* Next failed (log.Fatalln)
RECURSIVE ShowChainLoop(_, _, _)
ShowChainLoop(blocks, cursor, chainBlocks) ==
    IF ~ShowChainContinues(cursor)
    THEN [fatal |-> FALSE, cursor |-> cursor, Blocks |-> chainBlocks]
    ELSE LET n == IterNext(blocks, cursor)
         IN  IF n.err THEN [fatal |-> TRUE, cursor |-> cursor, Blocks |-> chainBlocks]
             ELSE ShowChainLoop(blocks, n.cursor, Append(chainBlocks, ChainBlock(n.block)))

\* API.ShowChain: head and height are read, the iterator is created and
\* driven to its end; a failing Next ends the process
ShowChain(p) ==
    /\ mgr = "ready"
    /\ pc[p] = "idle"
    /\ LET walk == ShowChainLoop(db.blocks, NewIterator(chainHead), <<>>)
       IN  IF walk.fatal
           THEN Exit("fatal")
           ELSE /\ iter' = [iter EXCEPT ![p] = [cursor |-> walk.cursor,
                                               ChainHead |-> chainHead,
                                               ChainHeight |-> chainHeight,
                                               Blocks |-> walk.Blocks]]
                /\ via' = [via EXCEPT ![p] = "show"]
                /\ req' = [req EXCEPT ![p] = <<>>]
                /\ txns' = [txns EXCEPT ![p] = <<>>]
                /\ blk' = [blk EXCEPT ![p] = NoBlock]
                /\ loc' = [loc EXCEPT ![p] = NoLoc]
                /\ Return(p, [kind |-> "ok", msg |-> "", BlockHeight |-> 0,
                              BlockHash |-> NullHash])
                /\ UNCHANGED <<mgr, boot, chainHead, chainHeight>>
    /\ UNCHANGED <<now, faults, db>>

(***************************************************************************)
(* Handlers that run at the same time                                      *)
(*                                                                         *)
(* ChainManager has no lock: each access of a handler to Head or Height is *)
(* a step of its own.  Head is an array of 32 bytes, which is not read or  *)
(* written in one piece: a read that overlaps a write can see bytes of the *)
(* old and of the new value.  Height is one machine word.                  *)
(***************************************************************************)
\* what a read of Head that overlapped a write of Head can give: a value
\* that is the hash of no block
TornHash == <<-1>>

\* the values handler p can read from Head: the value it holds, or, when
\* another handler is at its assignment to Head, a torn one
HeadReads(p) ==
    {chainHead} \cup (IF \E q \in Procs \ {p} : pc[q] = "update" THEN {TornHash} ELSE {})

\* AddBlock: chain.Head is read, the first argument of NewBlock
ConcReadHead(p) ==
    /\ pc[p] = "build"
    /\ \E h \in HeadReads(p) : loc' = [loc EXCEPT ![p].head = h]
    /\ pc' = [pc EXCEPT ![p] = "build_height"]
    /\ UNCHANGED <<now, faults, db, mgr, boot, chainHead, chainHeight, via, req, txns, blk,
                   iter, res>>

\* AddBlock: chain.Height is read, NewBlock builds the block on what was
\* read, and the block is serialized
ConcBuild(p) ==
    /\ pc[p] = "build_height"
    /\ \E t \in {u \in Timestamps : u >= now} :
          LET block == NewBlock(txns[p], loc[p].head, chainHeight, t)
          IN  /\ now' = t
              /\ blk' = [blk EXCEPT ![p] = block]
              /\ IF BlockSerializeFails(block)
                 THEN Return(p, Failure("error", "block serialize failed"))
                 ELSE /\ pc' = [pc EXCEPT ![p] = "store"]
                      /\ UNCHANGED res
    /\ UNCHANGED <<faults, db, mgr, boot, chainHead, chainHeight, via, req, txns, loc, iter>>

\* a variant of ConcWriteHead that leaves Head as it is
ConcWriteHead_Skip(p) ==
    /\ pc[p] = "update"
    /\ pc' = [pc EXCEPT ![p] = "inc_read"]
    /\ UNCHANGED <<now, faults, db, mgr, boot, chainHead, chainHeight, via, req, txns, blk,
                   loc, iter, res>>

\* AddBlock: chain.Head = block.BlockHash
ConcWriteHead(p) ==
    /\ pc[p] = "update"
    /\ chainHead' = blk[p].BlockHash
    /\ pc' = [pc EXCEPT ![p] = "inc_read"]
    /\ UNCHANGED <<now, faults, db, mgr, boot, chainHeight, via, req, txns, blk, loc, iter,
                   res>>

\* AddBlock: chain.Height++, its read
ConcReadHeight(p) ==
    /\ pc[p] = "inc_read"
    /\ loc' = [loc EXCEPT ![p].height = chainHeight]
    /\ pc' = [pc EXCEPT ![p] = "inc_write"]
    /\ UNCHANGED <<now, faults, db, mgr, boot, chainHead, chainHeight, via, req, txns, blk,
                   iter, res>>

\* AddBlock: chain.Height++, its write
ConcWriteHeight(p) ==
    /\ pc[p] = "inc_write"
    /\ chainHeight' = loc[p].height + 1
    /\ pc' = [pc EXCEPT ![p] = "synchead"]
    /\ UNCHANGED <<now, faults, db, mgr, boot, chainHead, via, req, txns, blk, loc, iter,
                   res>>

\* AddBlock: syncState reads Head and writes the head key
ConcSyncHead(p) ==
    /\ pc[p] = "synchead"
    /\ \/ /\ \E h \in HeadReads(p) : db' = SyncHead(db, h)
          /\ pc' = [pc EXCEPT ![p] = "syncheight"]
          /\ UNCHANGED <<faults, res>>
       \/ /\ Fault
          /\ Return(p, Failure("error", "chain state sync failed"))
          /\ UNCHANGED db
    /\ UNCHANGED <<now, mgr, boot, chainHead, chainHeight, via, req, txns, blk, loc, iter>>

\* ShowChain: api.chain.Head is read for the result
ShowReadHead(p) ==
    /\ mgr = "ready"
    /\ pc[p] = "idle"
    /\ \E h \in HeadReads(p) : iter' = [iter EXCEPT ![p] = [NoIter EXCEPT !.ChainHead = h]]
    /\ via' = [via EXCEPT ![p] = "show"]
    /\ req' = [req EXCEPT ![p] = <<>>]
    /\ txns' = [txns EXCEPT ![p] = <<>>]
    /\ blk' = [blk EXCEPT ![p] = NoBlock]
    /\ loc' = [loc EXCEPT ![p] = NoLoc]
    /\ pc' = [pc EXCEPT ![p] = "show_height"]
    /\ res' = [res EXCEPT ![p] = NoResult]
    /\ UNCHANGED <<now, faults, db, mgr, boot, chainHead, chainHeight>>

\* ShowChain: api.chain.Height is read for the result
ShowReadHeight(p) ==
    /\ pc[p] = "show_height"
    /\ iter' = [iter EXCEPT ![p].ChainHeight = chainHeight]
    /\ pc' = [pc EXCEPT ![p] = "show_iter"]
    /\ UNCHANGED <<now, faults, db, mgr, boot, chainHead, chainHeight, via, req, txns, blk,
                   loc, res>>

\* ShowChain: NewIterator reads Head into the cursor
ShowNewIterator(p) ==
    /\ pc[p] = "show_iter"
    /\ \E h \in HeadReads(p) :
          /\ iter' = [iter EXCEPT ![p].cursor = NewIterator(h)]
          /\ loc' = [loc EXCEPT ![p].head = h]
    /\ pc' = [pc EXCEPT ![p] = "walk"]
    /\ UNCHANGED <<now, faults, db, mgr, boot, chainHead, chainHeight, via, req, txns, blk,
                   res>>

\* ShowChain: one turn of the loop, or its end
ShowStep(p) ==
    /\ pc[p] = "walk"
    /\ IF ~ShowChainContinues(iter[p].cursor)
       THEN /\ Return(p, [kind |-> "ok", msg |-> "", BlockHeight |-> 0,
                          BlockHash |-> NullHash])
            /\ UNCHANGED <<mgr, boot, chainHead, chainHeight, via, req, txns, blk, loc, iter>>
       ELSE LET n == IterNext(db.blocks, iter[p].cursor)
            IN  IF n.err
                THEN Exit("fatal")
                ELSE /\ iter' = [iter EXCEPT ![p].cursor = n.cursor,
                                             ![p].Blocks = Append(@, ChainBlock(n.block))]
                     /\ UNCHANGED <<mgr, boot, chainHead, chainHeight, pc, via, req, txns,
                                    blk, loc, res>>
    /\ UNCHANGED <<now, faults, db>>

(***************************************************************************)
(* Specifications                                                          *)
(***************************************************************************)
Handler(p) ==
    \/ CallAddBlock(p)
    \/ APIAddBlock(p)
    \/ AddBlockBuild(p)
    \/ AddBlockStore(p)
    \/ AddBlockUpdate(p)
    \/ AddBlockSyncHead(p)
    \/ AddBlockSyncHeight(p)
    \/ ShowChain(p)

Startup == Load \/ InitOpen \/ InitGenesis \/ InitSyncHead \/ InitSyncHeight

\* a single writer: one request at a time
Next == Crash \/ Startup \/ Stop \/ Handler(1)

Spec == Init /\ [][Next]_vars

\* NewChainManager on an empty store
FirstStart == InitOpen \/ InitGenesis \/ InitSyncHead \/ InitSyncHeight

\* a handler that serves AddBlock beside other handlers
Writer(p) ==
    \/ CallAddBlock(p)
    \/ APIAddBlock(p)
    \/ ConcReadHead(p)
    \/ ConcBuild(p)
    \/ AddBlockStore(p)
    \/ ConcWriteHead(p)
    \/ ConcReadHeight(p)
    \/ ConcWriteHeight(p)
    \/ ConcSyncHead(p)
    \/ AddBlockSyncHeight(p)

\* a handler that serves ShowChain beside other handlers
Reader(p) == ShowReadHead(p) \/ ShowReadHeight(p) \/ ShowNewIterator(p) \/ ShowStep(p)

\* AddBlock requests that arrive while the chain is short
RaceCallAddBlock(p) == chainHeight < MaxRaceHeight /\ CallAddBlock(p)
RaceAPIAddBlock(p) == chainHeight < MaxRaceHeight /\ APIAddBlock(p)

\* a handler that serves such requests beside another one
RaceWriter(p) ==
    \/ RaceCallAddBlock(p)
    \/ RaceAPIAddBlock(p)
    \/ ConcReadHead(p)
    \/ ConcBuild(p)
    \/ AddBlockStore(p)
    \/ ConcWriteHead(p)
    \/ ConcReadHeight(p)
    \/ ConcWriteHeight(p)
    \/ ConcSyncHead(p)
    \/ AddBlockSyncHeight(p)

\* two AddBlock requests at a time
NextRace == FirstStart \/ RaceWriter(1) \/ RaceWriter(2)

SpecRace == Init /\ [][NextRace]_vars

\* AddBlock requests one at a time, and ShowChain requests beside them
NextSnapshot == FirstStart \/ Writer(1) \/ Reader(2)

SpecSnapshot == Init /\ [][NextSnapshot]_vars

(***************************************************************************)
(* The chain as the database holds it                                      *)
(***************************************************************************)
\* the hashes from h back along the priori links, newest first
RECURSIVE ChainPath(_, _)
ChainPath(blocks, h) ==
    IF h = NullHash \/ h \notin DOMAIN blocks THEN <<>>
    ELSE <<h>> \o ChainPath(blocks, BlockDeserialize(blocks[h]).Priori)

\* the block stored under hash h
StoredBlock(h) == BlockDeserialize(db.blocks[h])

\* handler p has returned from a successful AddBlock
Appended(p) == pc[p] = "idle" /\ via[p] \in {"core", "api"} /\ res[p].kind = "ok"

\* NewChainManager has just returned from init: no request was served yet
FreshlyInitialized ==
    /\ mgr = "ready"
    /\ boot = "init"
    /\ \A p \in Procs : pc[p] = "idle" /\ res[p].kind = "none"

\* the transactions of the chain that ends at head, oldest first
ForwardTxns(blocks, head) ==
    LET path == ChainPath(blocks, head)
        n == Len(path)
    IN  Concat([i \in 1..n |-> BlockDeserialize(blocks[path[n + 1 - i]]).BlockTxns])

\* the outputs of the transactions T, as <<transaction, output>> positions
Outpoints(T) == UNION {{<<i, j>> : j \in 1..Len(T[i].Outputs)} : i \in 1..Len(T)}

\* the outputs of T addressed to a
Owned(T, a) == {o \in Outpoints(T) : T[o[1]].Outputs[o[2]].PubKey = a}

\* the outputs of T that an input signed by a refers to
Referenced(T, a) ==
    {o \in Outpoints(T) :
        \E k \in 1..Len(T) : \E n \in 1..Len(T[k].Inputs) :
            /\ T[k].Inputs[n].Sig = a
            /\ T[k].Inputs[n].ID = T[o[1]].ID
            /\ T[k].Inputs[n].Out = o[2] - 1}

\* the outputs of T addressed to a that no input of a later transaction
\* refers to
Unspent(T, a) ==
    {o \in Owned(T, a) :
        ~\E k \in (o[1] + 1)..Len(T) : \E n \in 1..Len(T[k].Inputs) :
            /\ T[k].Inputs[n].ID = T[o[1]].ID
            /\ T[k].Inputs[n].Out = o[2] - 1}

RECURSIVE TotalValue(_, _)
TotalValue(T, S) ==
    IF S = {} THEN 0
    ELSE LET o == CHOOSE x \in S : TRUE
         IN  T[o[1]].Outputs[o[2]].Value + TotalValue(T, S \ {o})

\* the balance of a by a forward replay of the chain
ReplayBalance(blocks, head, a) ==
    LET T == ForwardTxns(blocks, head)
    IN  TotalValue(T, Owned(T, a)) - TotalValue(T, Referenced(T, a))

RECURSIVE SumValues(_)
SumValues(outs) == IF outs = <<>> THEN 0 ELSE Head(outs).Value + SumValues(Tail(outs))

\* handler p has returned from ShowChain
Listed(p) == pc[p] = "idle" /\ via[p] = "show" /\ res[p].kind = "ok"

(***************************************************************************)
(* Claims                                                                  *)
(***************************************************************************)
\* C1: monotonic append.  When ChainManager.AddBlock has returned nil, Height
\* is one more than the height the call started from (the BlockHeight of the
\* block it built), Head is the hash of the block the call built, and that
\* block is in the database under its hash.
C1_MonotonicAppend ==
    \A p \in Procs :
        Appended(p) =>
            /\ chainHeight = blk[p].BlockHeight + 1
            /\ chainHead = blk[p].BlockHash
            /\ chainHead \in DOMAIN db.blocks
            /\ StoredBlock(chainHead) = blk[p]

\* two AddBlock calls in a row have succeeded
C1_Witness ==
    /\ Appended(1)
    /\ chainHeight = 3
    /\ Len(ChainPath(db.blocks, chainHead)) = 3
    /\ faults = 0

\* C2: genesis invariant.  When NewChainManager has run init, Height is 1,
\* Head is the hash of the stored genesis block, that block has height 0, the
\* null hash as priori, and exactly one transaction, the reward paid to the
\* miner address by a non-referencing input; the head and height keys of the
\* database hold the same head and height.
C2_Genesis ==
    FreshlyInitialized =>
        /\ chainHeight = 1
        /\ chainHead \in DOMAIN db.blocks
        /\ LET g == StoredBlock(chainHead)
           IN  /\ g.BlockHash = chainHead
               /\ g.BlockHeight = 0
               /\ g.Priori = NullHash
               /\ Len(g.BlockTxns) = 1
               /\ Len(g.BlockTxns[1].Inputs) = 1
               /\ g.BlockTxns[1].Inputs[1].ID = NullHash
               /\ g.BlockTxns[1].Inputs[1].Out = -1
               /\ g.BlockTxns[1].Outputs = <<[Value |-> Reward, PubKey |-> MinerAddress]>>
               /\ DOMAIN db.blocks = {chainHead}
        /\ db.head = <<chainHead>>
        /\ db.height # <<>>
        /\ GobDecodeInt(db.height[1]) = 1

C2_Witness == FreshlyInitialized /\ db.exists

\* C3: durability ordering.  In every state, a crashed one included, the
\* head key of the database, when present, names a block of the database.
C3_HeadIsStored == db.head # <<>> => db.head[1] \in DOMAIN db.blocks

\* the process was killed after AddBlock wrote its block and before it wrote
\* the head: the database holds a block that the persisted head does not reach
C3_Witness ==
    /\ mgr = "down"
    /\ db.head # <<>>
    /\ \E h \in DOMAIN db.blocks : ~SeqContains(ChainPath(db.blocks, db.head[1]), h)

\* C4: UTXO conservation.  For every address, FindUTXO returns without error
\* outputs whose values add up to the balance a forward replay of the chain
\* gives, and FindSpendableOutputs asked for more than the balance
\* accumulates that balance.
C4_Conservation ==
    mgr = "ready" =>
        \A a \in Addresses :
            LET balance == ReplayBalance(db.blocks, chainHead, a)
                utxo == FindUTXO(db.blocks, chainHead, a)
                spendable == FindSpendableOutputs(db.blocks, chainHead, a, balance + 1)
            IN  /\ ~utxo.err
                /\ SumValues(utxo.UTXOs) = balance
                /\ ~spendable.err
                /\ spendable.accumulated = balance

\* C6: insufficient funds.  When API.AddBlock receives a request with a
\* transfer for more than its sender's balance, the request ends in the
\* panic of the funds check of NewTransaction, no block is built, and the
\* database, Head and Height are as before.
C6_InsufficientFunds ==
    [][(/\ APIAddBlock(1)
        /\ \E i \in 1..Len(req'[1]) :
              ReplayBalance(db.blocks, chainHead, req'[1][i].From) < req'[1][i].Value)
       => /\ res'[1] = Failure("panic", PanicFunds)
          /\ blk'[1] = NoBlock
          /\ UNCHANGED <<db, chainHead, chainHeight>>]_vars

\* C7, as stated: AddBlock with an empty transaction sequence, at the chain
\* manager as well as at the API, returns the empty-block error, and the
\* database never holds a block without transactions.
C7_EmptyRejectedEverywhere ==
    /\ \A p \in Procs :
          (/\ pc[p] = "idle"
           /\ res[p].kind # "none"
           /\ \/ via[p] = "core" /\ txns[p] = <<>>
              \/ via[p] = "api" /\ req[p] = <<>>)
              => res[p] = Failure("error", "no transactions for block")
    /\ \A h \in DOMAIN db.blocks : TxnCount(StoredBlock(h)) > 0

\* C7, amended: API.AddBlock with an empty request returns the error
\* "no transactions for block", builds no block, and leaves the database,
\* Head and Height unchanged.
C7_EmptyRejectedByAPI ==
    [][(APIAddBlock(1) /\ req'[1] = <<>>)
       => /\ res'[1] = Failure("error", "no transactions for block")
          /\ pc'[1] = "idle"
          /\ blk'[1] = NoBlock
          /\ UNCHANGED <<db, chainHead, chainHeight>>]_vars

\* API.AddBlock has refused an empty request on a chain of two blocks
C7_Witness ==
    /\ mgr = "ready"
    /\ via[1] = "api"
    /\ req[1] = <<>>
    /\ pc[1] = "idle"
    /\ res[1].kind = "error"
    /\ chainHeight = 2

\* C8: iterator exhaustion.  The loop of ShowChain, from the head of a chain
\* of h blocks, never has Next fail, and yields h blocks: the first is the
\* head, each next one is the block the one before names as its priori, the
\* last is genesis (height 0, null priori), and then Done holds.  h is
\* Height when no write has failed and the process was never killed.
C8_IteratorExhaustion ==
    /\ boot # "fatal"
    /\ \A p \in Procs :
          Listed(p) =>
              LET B == iter[p].Blocks
                  h == Len(B)
              IN  /\ h = Len(ChainPath(db.blocks, iter[p].ChainHead))
                  /\ faults = 0 => h = iter[p].ChainHeight
                  /\ h >= 1
                  /\ B[1].BlockHash = iter[p].ChainHead
                  /\ \A i \in 1..(h - 1) : B[i + 1].BlockHash = B[i].PrevBlockHash
                  /\ \A i \in 1..h : B[i].BlockHash \in DOMAIN db.blocks
                  /\ \A i \in 1..h : \A j \in 1..h : B[i] = B[j] => i = j
                  /\ B[h].PrevBlockHash = NullHash
                  /\ B[h].Height = 0
                  /\ IterDone(iter[p].cursor)

\* ShowChain has listed a chain of genesis and two appended blocks
C8_Witness ==
    /\ Listed(1)
    /\ Len(iter[1].Blocks) = 3
    /\ iter[1].ChainHeight = 3
    /\ faults = 0

\* C9: UTXO traversal terminates at genesis.  FindUnspentTransactions calls
\* Next once per block of the chain, never at the null cursor, and returns
\* without error.
C9_StopsAtGenesis ==
    mgr = "ready" =>
        \A a \in Addresses :
            LET r == FindUnspentTransactions(db.blocks, chainHead, a)
            IN  /\ ~r.err
                /\ ~SeqContains(r.nexts, NullHash)
                /\ r.nexts = ChainPath(db.blocks, chainHead)

\* C10: per-output spent tracking.  FindUTXO returns, once each, the outputs
\* addressed to the address that no later input refers to, and
\* FindSpendableOutputs selects only among these.
C10_PerOutputTracking ==
    mgr = "ready" =>
        \A a \in Addresses :
            LET T == ForwardTxns(db.blocks, chainHead)
                unspent == Unspent(T, a)
                utxo == FindUTXO(db.blocks, chainHead, a)
                spendable == FindSpendableOutputs(db.blocks, chainHead, a, Reward)
            IN  /\ ~utxo.err
                /\ Len(utxo.UTXOs) = Cardinality(unspent)
                /\ \A i \in 1..Len(utxo.UTXOs) : CanBeUnlocked(utxo.UTXOs[i], a)
                /\ SumValues(utxo.UTXOs) = TotalValue(T, unspent)
                /\ ~spendable.err
                /\ \A id \in DOMAIN spendable.unspentOuts :
                      \A k \in 1..Len(spendable.unspentOuts[id]) :
                          \E o \in unspent :
                              /\ T[o[1]].ID = id
                              /\ o[2] - 1 = spendable.unspentOuts[id][k]

\* a transaction of the shape CoinbaseTxn builds: one input, with the null
\* hash as source and output index -1
CoinbaseShaped(tx) ==
    /\ Len(tx.Inputs) = 1
    /\ tx.Inputs[1].ID = NullHash
    /\ tx.Inputs[1].Out = -1

\* C11: coinbase predicate.  IsCoinbase is true of every transaction on the
\* chain that CoinbaseTxn built and of no other, and the replay of
\* FindUnspentTransactions marks no output spent for a coinbase input,
\* whatever the address.
C11_CoinbasePredicate ==
    \A h \in DOMAIN db.blocks :
        \A i \in 1..TxnCount(StoredBlock(h)) :
            LET tx == StoredBlock(h).BlockTxns[i]
            IN  /\ IsCoinbase(tx) <=> CoinbaseShaped(tx)
                /\ CoinbaseShaped(tx) =>
                      \A a \in Addresses \cup {CoinsTo(b) : b \in Addresses} :
                          ScanTxns(<<tx>>, a, <<>>, EmptyMap).spentTXOs = EmptyMap

\* C12: persisted ChainState consistency.  Whenever the head key and the
\* height key are both present, the head key holds the hash of a stored
\* block whose block height is the persisted height minus one.
C12_PersistedStateConsistent ==
    (db.head # <<>> /\ db.height # <<>>) =>
        /\ db.head[1] \in DOMAIN db.blocks
        /\ StoredBlock(db.head[1]).BlockHeight = GobDecodeInt(db.height[1]) - 1

\* the amounts asked of FindSpendableOutputs
Amounts == {30, 500}

\* the outputs of T that a selection (transaction id -> output indexes) names
Selected(T, unspentOuts) ==
    {o \in Outpoints(T) :
        /\ T[o[1]].ID \in DOMAIN unspentOuts
        /\ SeqContains(unspentOuts[T[o[1]].ID], o[2] - 1)}

\* C14: greedy first-fit selection.  FindSpendableOutputs returns without
\* error a selection among the unspent outputs of the address whose values
\* add up to the accumulated value; when that reaches the amount, the
\* selection without its last output is short of the amount; when the
\* unspent outputs of the address total less than the amount, all of them
\* are selected.
C14_GreedyFirstFit ==
    mgr = "ready" =>
        \A a \in Addresses : \A amount \in Amounts :
            LET T == ForwardTxns(db.blocks, chainHead)
                r == FindSpendableOutputs(db.blocks, chainHead, a, amount)
                sel == Selected(T, r.unspentOuts)
            IN  /\ ~r.err
                /\ sel \subseteq Unspent(T, a)
                /\ r.accumulated = TotalValue(T, sel)
                /\ r.accumulated >= amount =>
                      \E o \in sel : TotalValue(T, sel \ {o}) < amount
                /\ TotalValue(T, Unspent(T, a)) < amount => sel = Unspent(T, a)

\* C15: a summary failure short-circuits block creation.  When a transaction
\* of the set does not hash (GenerateSummary gives the null hash), the call
\* of AddBlock, once past NewBlock, has produced and minted no block and
\* has returned an error.
C15_SummaryFailureShortCircuits ==
    \A p \in Procs :
        (/\ via[p] \in {"core", "api"}
         /\ GenerateSummary(txns[p]) = NullHash
         /\ pc[p] # "build")
            => /\ blk[p] = NoBlock
               /\ pc[p] = "idle"
               /\ res[p].kind = "error"

\* handler p has returned from an AddBlock that built a block and failed
FailedAfterBuild(p) ==
    /\ pc[p] = "idle"
    /\ via[p] \in {"core", "api"}
    /\ res[p].kind = "error"
    /\ blk[p] # NoBlock

\* C16, as stated: whenever ChainManager.AddBlock has returned an error,
\* Head and Height are what they were when the call read them.
C16_NoAdvanceOnFailure ==
    \A p \in Procs :
        FailedAfterBuild(p) =>
            /\ chainHead = blk[p].Priori
            /\ chainHeight = blk[p].BlockHeight

\* C16, amended: when ChainManager.AddBlock has returned the error of a
\* failed serialization or of a failed block write, Head and Height are what
\* they were when the call read them; when it has returned the error of a
\* failed state sync, Head is the hash of the new, stored block and Height
\* is one more than before.
C16_AdvanceOnlyOnSyncFailure ==
    \A p \in Procs :
        FailedAfterBuild(p) =>
            IF res[p].msg = "chain state sync failed"
            THEN /\ chainHead = blk[p].BlockHash
                 /\ chainHeight = blk[p].BlockHeight + 1
                 /\ chainHead \in DOMAIN db.blocks
                 /\ StoredBlock(chainHead) = blk[p]
            ELSE /\ res[p].msg \in {"block serialize failed", "block store to db failed"}
                 /\ chainHead = blk[p].Priori
                 /\ chainHeight = blk[p].BlockHeight

\* the height write of syncState has failed in AddBlock
C16_Witness ==
    /\ FailedAfterBuild(1)
    /\ res[1].msg = "chain state sync failed"
    /\ db.head = <<blk[1].BlockHash>>

\* C17: hash-chain shape.  From Head the prior-hash links reach genesis
\* (null prior hash, block height 0) after exactly Height blocks, each block
\* on the way is one higher than the block it names as prior, and the block
\* at Head has block height Height - 1.
C17_ChainShape ==
    mgr = "ready" =>
        LET path == ChainPath(db.blocks, chainHead)
            n == Len(path)
        IN  /\ n = chainHeight
            /\ n >= 1
            /\ StoredBlock(path[1]).BlockHeight = chainHeight - 1
            /\ \A i \in 1..(n - 1) :
                  StoredBlock(path[i]).BlockHeight = StoredBlock(path[i + 1]).BlockHeight + 1
            /\ StoredBlock(path[n]).Priori = NullHash
            /\ StoredBlock(path[n]).BlockHeight = 0

\* C18: restart round trip.  When no write has failed and the process was
\* never killed, the step that follows Stop is NewChainManager taking the
\* load path: the database is not written, and Head and Height are what
\* they were before Stop.
C18_RestartRoundTrip ==
    [][(mgr = "stopped" /\ faults = 0 /\ mgr' # "stopped")
       => /\ mgr' = "ready"
          /\ boot' = "load"
          /\ db' = db
          /\ chainHead' = chainHead
          /\ chainHeight' = chainHeight]_vars

\* the manager was restarted on a chain of genesis and two appended blocks
C18_Witness ==
    /\ mgr = "ready"
    /\ boot = "load"
    /\ faults = 0
    /\ chainHeight = 3
    /\ Len(ChainPath(db.blocks, chainHead)) = 3

\* both handlers have returned from a successful AddBlock, and their two
\* blocks, different ones, name the same block as prior
RaceDone ==
    /\ Appended(1)
    /\ Appended(2)
    /\ blk[1].Priori = blk[2].Priori
    /\ blk[1].BlockHash # blk[2].BlockHash

\* C19: unserialized AddBlock race.  When two AddBlock calls that ran at the
\* same time have built different blocks on the same Head and both returned
\* success, both blocks are stored with that Head as prior, Head is one of
\* them, and exactly one of them is on the path from Head, which is one
\* block longer than the path from their common prior: the other block is
\* reachable from no Head.  (The state in which, besides, both read the same
\* Height and both increments took effect is C19_Witness.)
C19_UnserializedAddBlock ==
    RaceDone =>
        LET path == ChainPath(db.blocks, chainHead)
            base == Len(ChainPath(db.blocks, blk[1].Priori))
        IN  /\ \A p \in Procs :
                 /\ blk[p].BlockHash \in DOMAIN db.blocks
                 /\ StoredBlock(blk[p].BlockHash).Priori = blk[p].Priori
            /\ chainHead \in {blk[1].BlockHash, blk[2].BlockHash}
            /\ SeqContains(path, blk[1].BlockHash) # SeqContains(path, blk[2].BlockHash)
            /\ Len(path) = base + 1

\* the two calls read the same Head and the same Height, and Height was
\* incremented twice: it is one more than the length of the chain from Head
C19_Witness ==
    /\ RaceDone
    /\ blk[1].BlockHeight = blk[2].BlockHeight
    /\ chainHeight = blk[1].BlockHeight + 2
    /\ Len(ChainPath(db.blocks, chainHead)) = chainHeight - 1

\* handler p walks the chain for ShowChain, or has walked it to the end, from
\* an iterator created on the hash of a stored block
Walking(p) ==
    /\ via[p] = "show"
    /\ pc[p] = "walk" \/ Listed(p)
    /\ loc[p].head \in DOMAIN db.blocks

\* what the iterator of p has yielded is the first blocks of the path from
\* its head, as the database holds them; its cursor is on the next one
YieldsSnapshot(p) ==
    LET path == ChainPath(db.blocks, loc[p].head)
        n == Len(iter[p].Blocks)
    IN  /\ n <= Len(path)
        /\ iter[p].Blocks = [i \in 1..n |-> ChainBlock(StoredBlock(path[i]))]
        /\ iter[p].cursor = IF n = Len(path) THEN NullHash ELSE path[n + 1]
        /\ StoredBlock(path[Len(path)]).Priori = NullHash
        /\ Listed(p) => n = Len(path)

\* C20: snapshot reads.  With AddBlock calls running beside it, the iterator
\* that ShowChain created on a head H yields the blocks from H back to
\* genesis, in that order and as the database holds them, its Next never
\* fails, it yields no block appended since, and no step modifies or removes
\* a block that is written.
C20_SnapshotReads ==
    /\ [](\A p \in Procs : Walking(p) => YieldsSnapshot(p))
    /\ [][/\ boot' = "fatal" => \E p \in Procs : pc[p] = "walk" /\ ~Walking(p)
          /\ \A h \in DOMAIN db.blocks :
                h \in DOMAIN db.blocks' /\ db.blocks'[h] = db.blocks[h]]_vars

\* an AddBlock call that built on the head the iterator was created on has
\* returned while the walk, two blocks long, is not at its end
C20_Witness ==
    /\ pc[2] = "walk"
    /\ Walking(2)
    /\ Len(ChainPath(db.blocks, loc[2].head)) = 2
    /\ Len(iter[2].Blocks) = 1
    /\ Appended(1)
    /\ blk[1].Priori = loc[2].head
    /\ chainHead = blk[1].BlockHash

====
